---------------------------- MODULE Spec2Model ----------------------------
(***************************************************************************)
(* The LLM bridge of app/my_server_llm_client.py (main) and                *)
(* app/learn_llm_client.py (demo_tools): fetch the tool catalog of the MCP *)
(* server, translate it into Gemini function declarations, ask the model,  *)
(* and either call the tool the model chose or print the model's text.     *)
(*                                                                         *)
(* Python's Optional[T] is modelled as a sequence of length 0 or 1:        *)
(* None is <<>> and a present value x is <<x>>.                            *)
(***************************************************************************)
EXTENDS Integers, Sequences, FiniteSets, TLC

None == <<>>
Some(x) == <<x>>

(***************************************************************************)
(* Bounds of the model.                                                    *)
(***************************************************************************)
\* Longest catalog list_tools returns.
MaxTools == 2

\* Most search_users calls the server is followed through.
MaxRequests == 3

(***************************************************************************)
(* The provider: the tools my_server.py registers.                         *)
(***************************************************************************)
GreetTool == [name |-> "greet", description |-> None, inputSchema |-> "schema_greet"]

AddTool == [name |-> "add", description |-> Some("add two numbers"), inputSchema |-> "schema_add"]

ServerTools == {GreetTool, AddTool}

\* greet(name) of my_server.py.
greet(args) == "Hello, " \o args.name \o "!"

\* add(a, b) of my_server.py.
add(args) == ToString(args.a + args.b)

\* The catalogs list_tools can return: tool names are unique in a catalog.
Catalogs ==
    {c \in UNION {[1..n -> ServerTools] : n \in 0..MaxTools} :
        \A i, j \in DOMAIN c : c[i].name = c[j].name => i = j}

ToolNamesOf(catalog) == {catalog[k].name : k \in DOMAIN catalog}

\* What the provider answers to call_tool(name, args) when it is reached: the
\* tool's return value, or an error for an unknown name or arguments that do
\* not fit the tool's signature.
ProviderCall(catalog, name, args) ==
    IF name \notin ToolNamesOf(catalog)
    THEN [is_error |-> TRUE, data |-> "Unknown tool"]
    ELSE IF name = "add" /\ DOMAIN args = {"a", "b"}
    THEN [is_error |-> FALSE, data |-> add(args)]
    ELSE IF name = "greet" /\ DOMAIN args = {"name"}
    THEN [is_error |-> FALSE, data |-> greet(args)]
    ELSE [is_error |-> TRUE, data |-> "Input validation error"]

(***************************************************************************)
(* The provider of learn_server.py: the sample users and search_users.     *)
(* The Japanese strings are written in Latin letters: 開発 is "kaihatsu",  *)
(* 営業 is "eigyo".                                                        *)
(***************************************************************************)
\* _get_users_data(): the list literal it returns.
get_users_data ==
    <<[id |-> "u001", name |-> "Tanaka Taro", department |-> "kaihatsu",
       skills |-> <<"Python", "MCP">>],
      [id |-> "u002", name |-> "Yamada Hanako", department |-> "eigyo",
       skills |-> <<"Excel", "kosho">>],
      [id |-> "u003", name |-> "Sato Jiro", department |-> "kaihatsu",
       skills |-> <<"JavaScript", "React">>]>>

\* [u for u in users if u["department"] == department]: the users are taken
\* in list order and kept when the department is equal.
RECURSIVE FilterByDepartment(_, _)
FilterByDepartment(users, department) ==
    IF users = <<>> THEN <<>>
    ELSE IF Head(users).department = department
    THEN <<Head(users)>> \o FilterByDepartment(Tail(users), department)
    ELSE FilterByDepartment(Tail(users), department)

\* A search that stops at the first user found.
search_users_first(department) ==
    LET found == FilterByDepartment(get_users_data, department)
    IN  IF found = <<>> THEN <<>> ELSE <<Head(found)>>

\* search_users(department)
search_users(department) == FilterByDepartment(get_users_data, department)

\* The department strings a caller sends: the two departments of the sample,
\* one no user has, the empty string and one that differs in case only.
Departments == {"kaihatsu", "eigyo", "jinji", "", "Kaihatsu"}

(***************************************************************************)
(* The selection service: the responses generate_content can return.       *)
(***************************************************************************)
\* The dict {}.
EmptyDict == <<>>

AddArgs == [a |-> 5, b |-> 7]

GreetArgs == [name |-> "Gemini"]

\* function_call objects: name and args are both optional.
FunctionCalls ==
    [name : {None, Some("add"), Some("nosuch")},
     args : {None, Some(EmptyDict), Some(AddArgs)}]

\* A part carries text or a function call (or neither).
Parts ==
    {[text |-> t, function_call |-> None] : t \in {None, Some("answer")}}
        \cup {[text |-> None, function_call |-> Some(f)] : f \in FunctionCalls}

\* What may follow the first part / the first candidate.
LaterPart == [text |-> None, function_call |-> Some([name |-> Some("greet"), args |-> Some(GreetArgs)])]

PartLists ==
    {<<>>} \cup {<<p>> : p \in Parts} \cup {<<p, LaterPart>> : p \in Parts}

Contents == [parts : {None} \cup {Some(ps) : ps \in PartLists}]

CandidateValues == [content : {None} \cup {Some(c) : c \in Contents}]

LaterCandidate == [content |-> Some([parts |-> Some(<<LaterPart>>)])]

CandidateLists ==
    {<<>>} \cup {<<c>> : c \in CandidateValues}
        \cup {<<c, LaterCandidate>> : c \in CandidateValues}

Responses ==
    [candidates : {None} \cup {Some(cs) : cs \in CandidateLists},
     text : {None, Some("free text")}]


(***************************************************************************)
(* The pure pieces of the bridge.                                          *)
(***************************************************************************)
\* `x or ""` on an Optional[str]: None and "" both give "".
OrEmpty(o) == IF o = None \/ o = Some("") THEN "" ELSE o[1]

\* The dict literal built for one tool.
FunctionDeclaration(tool) ==
    [name |-> tool.name,
     description |-> OrEmpty(tool.description),
     parameters |-> tool.inputSchema]

\* The loop with each declaration put in front of the list instead of appended.
RECURSIVE PrependDeclarations(_, _)
PrependDeclarations(acc, tools) ==
    IF tools = <<>> THEN acc
    ELSE PrependDeclarations(<<FunctionDeclaration(Head(tools))>> \o acc, Tail(tools))

\* The loop that fills gemini_functions: one append per tool, in list order,
\* starting from `acc`.
RECURSIVE AppendDeclarations(_, _)
AppendDeclarations(acc, tools) ==
    IF tools = <<>> THEN acc
    ELSE AppendDeclarations(Append(acc, FunctionDeclaration(Head(tools))), Tail(tools))

\* gemini_functions = [] followed by the loop.
Translate(tools) == AppendDeclarations(<<>>, tools)

\* The request generate_content sends.
user_message == "5 to 7 wo tashite kudasai"

Request(declarations) ==
    [model |-> "gemini-2.5-flash-lite", contents |-> user_message, tools |-> declarations]

\* not candidates or not candidates[0].content or not candidates[0].content.parts
\* (evaluated left to right, stopping at the first true operand).
\* `not x` for an Optional[list]: None and the empty list are falsy.
NotList(o) == IF o = None THEN TRUE ELSE o[1] = <<>>

IsEmptyResponse(r) ==
    IF NotList(r.candidates) THEN TRUE
    ELSE IF r.candidates[1][1].content = None THEN TRUE
    ELSE NotList(r.candidates[1][1].content[1].parts)

\* The index -1 in place of 0: the last part of the first candidate.
LastPart(r) ==
    r.candidates[1][1].content[1].parts[1][Len(r.candidates[1][1].content[1].parts[1])]

\* part = candidates[0].content.parts[0]
FirstPart(r) == r.candidates[1][1].content[1].parts[1][1]

\* The test also asking for a name: `part.function_call and part.function_call.name`.
HasNamedFunctionCall(part) ==
    IF part.function_call = None THEN FALSE ELSE part.function_call[1].name # None

\* `if part.function_call:` an object is truthy, None is not.
HasFunctionCall(part) == part.function_call # None

\* func_name = func_call.name or ""
FuncName(func_call) == OrEmpty(func_call.name)

\* dict(d.items()): a new dict with the same items.
ToDict(d) == [k \in DOMAIN d |-> d[k]]

\* The conditional expression with its two arms exchanged.
FuncArgsArmsSwapped(func_call) ==
    IF func_call.args # None /\ DOMAIN func_call.args[1] # {}
    THEN EmptyDict
    ELSE IF func_call.args = None THEN EmptyDict ELSE ToDict(func_call.args[1])

\* func_args = dict(func_call.args.items()) if func_call.args else {}
FuncArgs(func_call) ==
    IF func_call.args # None /\ DOMAIN func_call.args[1] # {}
    THEN ToDict(func_call.args[1])
    ELSE EmptyDict

\* f"{response.text}": a str prints as itself, None prints as "None".
FormatText(t) == IF t = None THEN "None" ELSE t[1]

\* f"  {result}": the result printed after two spaces.
FormatResult(r) == "  " \o r.data

(***************************************************************************)
(* The state: the locals of each run of the bridge, what it printed last,  *)
(* and the calls it made.  A local that is not bound yet is None.          *)
(***************************************************************************)
\* The script is run once per utterance; "second" is a run after "first".
Runs == {"first", "second"}

VARIABLES
    pc,               \* where each run is
    session,          \* the `async with mcp_client:` block: "closed" or "open"
    mcp_tools,        \* Optional: the catalog list_tools returned
    gemini_functions, \* Optional: the declarations built from it
    response,         \* Optional: what generate_content returned
    func_name,        \* Optional: the name passed to call_tool
    func_args,        \* Optional: the arguments passed to call_tool
    result,           \* Optional: what call_tool returned
    exc,              \* Optional: the exception that ended the run
    shown,            \* Optional: the last "response" or "result" print
    calls,            \* the remote calls made, in order
    visited,          \* the values pc has taken, in order
    search_log        \* the search_users calls served: department and result

vars == <<pc, session, mcp_tools, gemini_functions, response, func_name,
          func_args, result, exc, shown, calls, visited, search_log>>

\* The state of the bridge runs.
bridge_vars == <<pc, session, mcp_tools, gemini_functions, response, func_name,
                 func_args, result, exc, shown, calls, visited>>

Terminal == {"Dispatched", "PassedThrough"}

Final == Terminal \cup {"Failed"}

Init ==
    /\ pc = [i \in Runs |-> "Idle"]
    /\ session = [i \in Runs |-> "closed"]
    /\ mcp_tools = [i \in Runs |-> None]
    /\ gemini_functions = [i \in Runs |-> None]
    /\ response = [i \in Runs |-> None]
    /\ func_name = [i \in Runs |-> None]
    /\ func_args = [i \in Runs |-> None]
    /\ result = [i \in Runs |-> None]
    /\ exc = [i \in Runs |-> None]
    /\ shown = [i \in Runs |-> None]
    /\ calls = [i \in Runs |-> <<>>]
    /\ visited = [i \in Runs |-> <<"Idle">>]
    /\ search_log = <<>>

\* pc moves to `to`.
Goto(i, to) ==
    /\ pc' = [pc EXCEPT ![i] = to]
    /\ visited' = [visited EXCEPT ![i] = Append(@, to)]

\* One remote call is recorded.
Called(i, op, name, args) ==
    calls' = [calls EXCEPT ![i] = Append(@, [op |-> op, name |-> name, args |-> args])]

\* An exception leaves main(): it passes through the `async with`, which
\* closes the session, and nothing catches it.
Raise(i, type, detail) ==
    /\ exc' = [exc EXCEPT ![i] = Some([type |-> type, detail |-> detail])]
    /\ session' = [session EXCEPT ![i] = "closed"]
    /\ Goto(i, "Failed")

\* The client entered by hand and never closed: main() returns with the
\* session as it is.
ReturnLeavingOpen(i, to) ==
    /\ Goto(i, to)
    /\ UNCHANGED session

\* main() returns: the `async with` closes the session.
Return(i, to) ==
    /\ session' = [session EXCEPT ![i] = "closed"]
    /\ Goto(i, to)

\* print(f"=== LLMの応答 ===\n{response.text}")
PrintResponseText(i) ==
    shown' = [shown EXCEPT ![i] =
                 Some([label |-> "llm_response", body |-> FormatText(response[i][1].text)])]

(***************************************************************************)
(* The steps of a run.                                                     *)
(***************************************************************************)
\* `async with mcp_client:` is entered: the session opens, or connecting fails.
Connect(i) ==
    /\ pc[i] = "Idle" /\ session[i] = "closed"
    /\ \/ /\ session' = [session EXCEPT ![i] = "open"]
          /\ UNCHANGED <<pc, visited, exc>>
       \/ /\ exc' = [exc EXCEPT ![i] = Some([type |-> "RuntimeError", detail |-> "connect failed"])]
          /\ Goto(i, "Failed")
          /\ UNCHANGED session
    /\ UNCHANGED <<mcp_tools, gemini_functions, response, func_name, func_args,
                   result, shown, calls>>
    /\ UNCHANGED search_log

\* mcp_tools kept at module level, one list for all invocations: the catalog
\* an invocation fetches replaces the one every other invocation holds.
ListToolsShared(i) ==
    /\ pc[i] = "Idle" /\ session[i] = "open"
    /\ Called(i, "list_tools", "", EmptyDict)
    /\ \/ /\ \E c \in Catalogs : mcp_tools' = [j \in Runs |-> Some(c)]
          /\ Goto(i, "CatalogFetched")
          /\ UNCHANGED <<session, exc>>
       \/ /\ Raise(i, "ProviderUnavailable", "list_tools failed")
          /\ UNCHANGED mcp_tools
    /\ UNCHANGED <<gemini_functions, response, func_name, func_args, result, shown>>
    /\ UNCHANGED search_log

\* mcp_tools = await mcp_client.list_tools()
ListTools(i) ==
    /\ pc[i] = "Idle" /\ session[i] = "open"
    /\ Called(i, "list_tools", "", EmptyDict)
    /\ \/ /\ \E c \in Catalogs : mcp_tools' = [mcp_tools EXCEPT ![i] = Some(c)]
          /\ Goto(i, "CatalogFetched")
          /\ UNCHANGED <<session, exc>>
       \/ /\ Raise(i, "ProviderUnavailable", "list_tools failed")
          /\ UNCHANGED mcp_tools
    /\ UNCHANGED <<gemini_functions, response, func_name, func_args, result, shown>>
    /\ UNCHANGED search_log

\* gemini_functions kept at module level and never emptied: the loop appends
\* to what the run before has left in it.
TranslateToolsShared(i) ==
    /\ pc[i] = "CatalogFetched"
    /\ LET before == IF i = "second" /\ gemini_functions["first"] # None
                     THEN gemini_functions["first"][1]
                     ELSE <<>>
       IN  gemini_functions' =
               [gemini_functions EXCEPT ![i] = Some(AppendDeclarations(before, mcp_tools[i][1]))]
    /\ Goto(i, "DeclarationsTranslated")
    /\ UNCHANGED <<session, mcp_tools, response, func_name, func_args, result,
                   exc, shown, calls>>
    /\ UNCHANGED search_log

\* gemini_functions = []; for tool in mcp_tools: gemini_functions.append(...)
TranslateTools(i) ==
    /\ pc[i] = "CatalogFetched"
    /\ gemini_functions' = [gemini_functions EXCEPT ![i] = Some(Translate(mcp_tools[i][1]))]
    /\ Goto(i, "DeclarationsTranslated")
    /\ UNCHANGED <<session, mcp_tools, response, func_name, func_args, result,
                   exc, shown, calls>>
    /\ UNCHANGED search_log

\* generate_content in a retry loop: a failure is followed by another attempt.
GenerateContentRetried(i) ==
    /\ pc[i] = "DeclarationsTranslated"
    /\ Called(i, "generate_content", "", Request(gemini_functions[i][1]))
    /\ \/ /\ \E r \in Responses : response' = [response EXCEPT ![i] = Some(r)]
          /\ Goto(i, "OutcomeReceived")
          /\ UNCHANGED <<session, exc>>
       \/ /\ Len(calls[i]) < 3
          /\ UNCHANGED <<response, pc, visited, session, exc>>
    /\ UNCHANGED <<mcp_tools, gemini_functions, func_name, func_args, result, shown>>
    /\ UNCHANGED search_log

\* response = gemini_client.models.generate_content(...)
GenerateContent(i) ==
    /\ pc[i] = "DeclarationsTranslated"
    /\ Called(i, "generate_content", "", Request(gemini_functions[i][1]))
    /\ \/ /\ \E r \in Responses : response' = [response EXCEPT ![i] = Some(r)]
          /\ Goto(i, "OutcomeReceived")
          /\ UNCHANGED <<session, exc>>
       \/ /\ Raise(i, "ServiceUnavailable", "generate_content failed")
          /\ UNCHANGED response
    /\ UNCHANGED <<mcp_tools, gemini_functions, func_name, func_args, result, shown>>
    /\ UNCHANGED search_log

\* The early branch without its `return`: after the print, the indexing
\* candidates[0].content.parts[0] raises.
EmptyResponseNoReturn(i) ==
    /\ pc[i] = "OutcomeReceived"
    /\ IsEmptyResponse(response[i][1])
    /\ PrintResponseText(i)
    /\ Raise(i, "TypeError", "object is not subscriptable")
    /\ UNCHANGED <<mcp_tools, gemini_functions, response, func_name, func_args,
                   result, calls>>
    /\ UNCHANGED search_log

\* The early return: no candidate, no content or no parts.
EmptyResponse(i) ==
    /\ pc[i] = "OutcomeReceived"
    /\ IsEmptyResponse(response[i][1])
    /\ PrintResponseText(i)
    /\ Return(i, "PassedThrough")
    /\ UNCHANGED <<mcp_tools, gemini_functions, response, func_name, func_args,
                   result, exc, calls>>
    /\ UNCHANGED search_log

\* await mcp_client.call_tool(...) does not reach the provider: the
\* transport's exception leaves main().
CallToolUnreachable(i) ==
    /\ Raise(i, "ProviderUnavailable", "call_tool failed")
    /\ UNCHANGED <<result, shown>>

\* The call wrapped in `try: ... except Exception: pass`: the error is dropped
\* and main() returns as after a dispatch.
CallToolRejectedSwallowed(i, answer) ==
    /\ Return(i, "Dispatched")
    /\ UNCHANGED <<result, shown, exc>>

\* The provider answers with an error: call_tool raises ToolError with the
\* provider's message, and nothing in main() catches it.
CallToolRejected(i, answer) ==
    /\ Raise(i, "ToolError", answer.data)
    /\ UNCHANGED <<result, shown>>

\* The branch with `else:` dropped: after the result, the response text is
\* printed as well.
CallToolReturnedFallsThrough(i, answer) ==
    /\ result' = [result EXCEPT ![i] = Some(answer)]
    /\ shown' = [shown EXCEPT ![i] =
                    Some([label |-> "llm_response", body |-> FormatText(response[i][1].text)])]
    /\ session' = [session EXCEPT ![i] = "closed"]
    /\ pc' = [pc EXCEPT ![i] = "PassedThrough"]
    /\ visited' = [visited EXCEPT ![i] = @ \o <<"Dispatched", "PassedThrough">>]
    /\ UNCHANGED exc

\* The provider answers with a result: it is bound to `result` and printed.
CallToolReturned(i, answer) ==
    /\ result' = [result EXCEPT ![i] = Some(answer)]
    /\ shown' = [shown EXCEPT ![i] =
                    Some([label |-> "tool_result", body |-> FormatResult(answer)])]
    /\ Return(i, "Dispatched")
    /\ UNCHANGED exc

\* The `if part.function_call:` branch: the tool is called once and its
\* result printed.
Dispatch(i) ==
    /\ pc[i] = "OutcomeReceived"
    /\ ~IsEmptyResponse(response[i][1])
    /\ HasFunctionCall(FirstPart(response[i][1]))
    /\ LET func_call == FirstPart(response[i][1]).function_call[1]
           name == FuncName(func_call)
           args == FuncArgs(func_call)
           answer == ProviderCall(mcp_tools[i][1], name, args)
       IN  /\ func_name' = [func_name EXCEPT ![i] = Some(name)]
           /\ func_args' = [func_args EXCEPT ![i] = Some(args)]
           /\ Called(i, "call_tool", name, args)
           /\ \/ CallToolUnreachable(i)
              \/ answer.is_error /\ CallToolRejected(i, answer)
              \/ ~answer.is_error /\ CallToolReturned(i, answer)
    /\ UNCHANGED <<mcp_tools, gemini_functions, response>>
    /\ UNCHANGED search_log

\* The `else:` branch printing part.text in place of response.text.
PassThroughPartText(i) ==
    /\ pc[i] = "OutcomeReceived"
    /\ ~IsEmptyResponse(response[i][1])
    /\ ~HasFunctionCall(FirstPart(response[i][1]))
    /\ shown' = [shown EXCEPT ![i] =
                    Some([label |-> "llm_response",
                          body |-> FormatText(FirstPart(response[i][1]).text)])]
    /\ Return(i, "PassedThrough")
    /\ UNCHANGED <<mcp_tools, gemini_functions, response, func_name, func_args,
                   result, exc, calls>>
    /\ UNCHANGED search_log

\* The `else:` branch: the model answered in text.
PassThrough(i) ==
    /\ pc[i] = "OutcomeReceived"
    /\ ~IsEmptyResponse(response[i][1])
    /\ ~HasFunctionCall(FirstPart(response[i][1]))
    /\ PrintResponseText(i)
    /\ Return(i, "PassedThrough")
    /\ UNCHANGED <<mcp_tools, gemini_functions, response, func_name, func_args,
                   result, exc, calls>>
    /\ UNCHANGED search_log

Step(i) ==
    \/ Connect(i)
    \/ ListTools(i)
    \/ TranslateTools(i)
    \/ GenerateContent(i)
    \/ EmptyResponse(i)
    \/ Dispatch(i)
    \/ PassThrough(i)

\* One utterance: a single run of the script.
Next == Step("first")

Spec == Init /\ [][Next]_vars

\* The script run twice, the second run after the first has ended.
NextTwice ==
    \/ Step("first")
    \/ pc["first"] \in Final /\ Step("second")

SpecTwice == Init /\ [][NextTwice]_vars

\* Two invocations of main() at once (two processes, or two tasks of one
\* event loop): their steps interleave in any order.
NextConcurrent == \E i \in Runs : Step(i)

SpecConcurrent == Init /\ [][NextConcurrent]_vars

\* The server of learn_server.py serves one search_users call: the tool
\* function is run on the department sent and its return value is the answer.
SearchUsers ==
    /\ Len(search_log) < MaxRequests
    /\ \E d \in Departments :
          search_log' = Append(search_log, [department |-> d, users |-> search_users(d)])
    /\ UNCHANGED bridge_vars

NextSearch == SearchUsers

SpecSearch == Init /\ [][NextSearch]_vars

(***************************************************************************)
(* What the properties below read off a state.                             *)
(***************************************************************************)
\* The call_tool calls a run has made, in order.
CallToolLog(i) == SelectSeq(calls[i], LAMBDA c : c.op = "call_tool")

\* The names of the remote calls a run has made, in order.
CallOps(i) == [k \in DOMAIN calls[i] |-> calls[i][k].op]

\* r has a first candidate with a first part.
HasFirstPart(r) ==
    /\ r.candidates # None
    /\ r.candidates[1] # <<>>
    /\ r.candidates[1][1].content # None
    /\ r.candidates[1][1].content[1].parts # None
    /\ r.candidates[1][1].content[1].parts[1] # <<>>

\* The first part of the first candidate of r.
PartOne(r) == r.candidates[1][1].content[1].parts[1][1]

\* How a text field reads when printed.
Printed(t) == IF t = None THEN "None" ELSE t[1]

\* The run printed the response's text field as the model's answer.
ShowsResponseText(i) ==
    shown[i] = Some([label |-> "llm_response", body |-> Printed(response[i][1].text)])

\* The run has ended after generate_content returned.
EndedWithResponse(i) == pc[i] \in Final /\ response[i] # None

(***************************************************************************)
(* C1: when the first part of the first candidate carries a function call  *)
(* with name X and arguments A, the run makes exactly one call_tool call,  *)
(* with exactly (X, A); when the call returns, the value bound to `result` *)
(* is the provider's answer and the printed text is that answer; when it   *)
(* raises, no result is printed.                                           *)
(***************************************************************************)
C1_ExactDispatch ==
    \A i \in Runs :
        (/\ EndedWithResponse(i)
         /\ HasFirstPart(response[i][1])
         /\ PartOne(response[i][1]).function_call # None
         /\ PartOne(response[i][1]).function_call[1].name # None
         /\ PartOne(response[i][1]).function_call[1].args # None)
        => LET X == PartOne(response[i][1]).function_call[1].name[1]
               A == PartOne(response[i][1]).function_call[1].args[1]
           IN  /\ CallToolLog(i) = <<[op |-> "call_tool", name |-> X, args |-> A]>>
               /\ pc[i] = "Dispatched" =>
                     /\ result[i] = Some(ProviderCall(mcp_tools[i][1], X, A))
                     /\ shown[i] = Some([label |-> "tool_result",
                                         body |-> "  " \o result[i][1].data])
               /\ pc[i] # "Dispatched" =>
                     /\ pc[i] = "Failed"
                     /\ result[i] = None
                     /\ shown[i] = None

\* add(5, 7) was proposed, called and its result 12 printed.
C1_Witness ==
    /\ pc["first"] = "Dispatched"
    /\ CallToolLog("first") = <<[op |-> "call_tool", name |-> "add", args |-> AddArgs]>>
    /\ shown["first"] = Some([label |-> "tool_result", body |-> "  12"])

(***************************************************************************)
(* C2: the declarations built from a catalog have the catalog's length and *)
(* order: declaration k carries the name of tool k, for every k, the empty *)
(* catalog included.                                                       *)
(***************************************************************************)
C2_TranslationPreserves ==
    \A i \in Runs :
        gemini_functions[i] # None
        => LET C == mcp_tools[i][1]
               D == gemini_functions[i][1]
           IN  /\ Len(D) = Len(C)
               /\ \A k \in 1..Len(C) : D[k].name = C[k].name

\* A catalog of two tools has been translated.
C2_Witness ==
    /\ gemini_functions["first"] # None
    /\ mcp_tools["first"] = Some(<<GreetTool, AddTool>>)
    /\ Len(gemini_functions["first"][1]) = 2

(***************************************************************************)
(* C3: a response with no candidates (the list absent or empty) ends the   *)
(* run as a text response: the response's text field is printed, nothing   *)
(* is proposed and call_tool is not called.                                *)
(***************************************************************************)
C3_NoCandidatesIsText ==
    \A i \in Runs :
        (/\ EndedWithResponse(i)
         /\ (response[i][1].candidates = None \/ response[i][1].candidates[1] = <<>>))
        => /\ pc[i] = "PassedThrough"
           /\ ShowsResponseText(i)
           /\ CallToolLog(i) = <<>>
           /\ func_name[i] = None /\ func_args[i] = None
           /\ exc[i] = None

\* A response with an empty candidates list and a text field was printed.
C3_Witness ==
    /\ pc["first"] = "PassedThrough"
    /\ response["first"][1].candidates = Some(<<>>)
    /\ shown["first"] = Some([label |-> "llm_response", body |-> "free text"])

(***************************************************************************)
(* C4: when the first part of the first candidate carries no function      *)
(* call, the run prints the response's text field as it is and calls the   *)
(* provider no more after the selection call: call_tool is never called.   *)
(***************************************************************************)
C4_TextResponseNoCall ==
    \A i \in Runs :
        (/\ EndedWithResponse(i)
         /\ HasFirstPart(response[i][1])
         /\ PartOne(response[i][1]).function_call = None)
        => /\ pc[i] = "PassedThrough"
           /\ ShowsResponseText(i)
           /\ CallToolLog(i) = <<>>
           /\ CallOps(i) = <<"list_tools", "generate_content">>

\* A first part with text only was passed through.
C4_Witness ==
    /\ pc["first"] = "PassedThrough"
    /\ HasFirstPart(response["first"][1])
    /\ PartOne(response["first"][1]) = [text |-> Some("answer"), function_call |-> None]
    /\ shown["first"] = Some([label |-> "llm_response", body |-> "free text"])

(***************************************************************************)
(* C5 as stated: every run goes Idle, CatalogFetched,                      *)
(* DeclarationsTranslated, OutcomeReceived in that order, each at most     *)
(* once, and a run that has started and can take no further step is in one *)
(* of the two terminal states Dispatched and PassedThrough.                *)
(***************************************************************************)
Chain == <<"Idle", "CatalogFetched", "DeclarationsTranslated", "OutcomeReceived">>

IsPrefix(s, t) == Len(s) <= Len(t) /\ \A k \in 1..Len(s) : s[k] = t[k]

\* The states of the state machine a run has been in, in order.
Path(i) == SelectSeq(visited[i], LAMBDA st : st # "Failed")

\* The path follows the chain, with at most one terminal state at its end.
PathInOrder(i) ==
    \/ IsPrefix(Path(i), Chain)
    \/ \E t \in Terminal : Path(i) = Chain \o <<t>>

C5_AlwaysReachesTerminal ==
    \A i \in Runs :
        /\ PathInOrder(i)
        /\ (calls[i] # <<>> /\ ~ENABLED Step(i)) => pc[i] \in Terminal

(***************************************************************************)
(* C5 as amended: every run goes through the four states in that order,    *)
(* each at most once; a run in which connecting, list_tools,               *)
(* generate_content or call_tool raises ends there, in no terminal state;  *)
(* every other run ends in exactly one of Dispatched and PassedThrough; no *)
(* state is revisited, an ended run takes no step, a run that has not      *)
(* ended can take one, and the remote calls are list_tools, then           *)
(* generate_content, then call_tool.                                       *)
(***************************************************************************)
C5_LinearOrFailed ==
    \A i \in Runs :
        /\ PathInOrder(i)
        /\ \/ visited[i] = Path(i) /\ pc[i] # "Failed"
           \/ /\ visited[i] = Path(i) \o <<"Failed">>
              /\ IsPrefix(Path(i), Chain)
              /\ pc[i] = "Failed"
        /\ pc[i] = visited[i][Len(visited[i])]
        /\ (pc[i] = "Failed") <=> (exc[i] # None)
        /\ (pc[i] \in Final) <=> ~ENABLED Step(i)
        /\ IsPrefix(CallOps(i), <<"list_tools", "generate_content", "call_tool">>)
        /\ pc[i] = "Dispatched" => CallOps(i) = <<"list_tools", "generate_content", "call_tool">>
        /\ pc[i] = "PassedThrough" => CallOps(i) = <<"list_tools", "generate_content">>

\* A run went through the whole chain and ended in Dispatched.
C5_Witness == visited["first"] = Chain \o <<"Dispatched">>

(***************************************************************************)
(* C6: when the provider answers a call_tool call with an error (unknown   *)
(* name, arguments that do not fit), the run ends with the ToolError that  *)
(* carries the provider's message: no result is bound or printed, the run  *)
(* does not end as after a dispatch, and the call is made once.            *)
(***************************************************************************)
\* call_tool was called and the provider was reached.
ProviderAnswered(i) ==
    /\ CallToolLog(i) # <<>>
    /\ exc[i] # Some([type |-> "ProviderUnavailable", detail |-> "call_tool failed"])

C6_RejectedCallRaises ==
    \A i \in Runs :
        (/\ pc[i] \in Final
         /\ ProviderAnswered(i)
         /\ ProviderCall(mcp_tools[i][1], CallToolLog(i)[1].name, CallToolLog(i)[1].args).is_error)
        => LET answer == ProviderCall(mcp_tools[i][1], CallToolLog(i)[1].name,
                                      CallToolLog(i)[1].args)
           IN  /\ pc[i] = "Failed"
               /\ exc[i] = Some([type |-> "ToolError", detail |-> answer.data])
               /\ result[i] = None
               /\ shown[i] = None
               /\ Len(CallToolLog(i)) = 1

\* A tool the provider does not have was proposed and the call raised.
C6_Witness ==
    /\ pc["first"] = "Failed"
    /\ CallToolLog("first") = <<[op |-> "call_tool", name |-> "nosuch", args |-> AddArgs]>>
    /\ exc["first"] = Some([type |-> "ToolError", detail |-> "Unknown tool"])

(***************************************************************************)
(* C7 as stated: a response that is present but lacks structure (a first   *)
(* candidate without content, content without parts, a first part with     *)
(* neither text nor function call, a function call without name or without *)
(* arguments) ends the run as a text passthrough: text is printed and      *)
(* nothing is raised (a run in which the provider could not be reached is  *)
(* left aside).                                                            *)
(***************************************************************************)
\* A first candidate without content, or content without parts.
LacksParts(r) ==
    /\ r.candidates # None
    /\ r.candidates[1] # <<>>
    /\ \/ r.candidates[1][1].content = None
       \/ r.candidates[1][1].content[1].parts = None
       \/ r.candidates[1][1].content[1].parts[1] = <<>>

\* A first part with neither text nor function call.
BarePart(r) ==
    /\ HasFirstPart(r)
    /\ PartOne(r).text = None
    /\ PartOne(r).function_call = None

\* A first part whose function call lacks its name or its arguments.
PartialCall(r) ==
    /\ HasFirstPart(r)
    /\ PartOne(r).function_call # None
    /\ \/ PartOne(r).function_call[1].name = None
       \/ PartOne(r).function_call[1].args = None

C7_MalformedIsText ==
    \A i \in Runs :
        (/\ EndedWithResponse(i)
         /\ (LacksParts(response[i][1]) \/ BarePart(response[i][1])
                \/ PartialCall(response[i][1]))
         /\ exc[i] # Some([type |-> "ProviderUnavailable", detail |-> "call_tool failed"]))
        => /\ pc[i] = "PassedThrough"
           /\ shown[i] # None
           /\ shown[i][1].label = "llm_response"
           /\ exc[i] = None

(***************************************************************************)
(* C7 as amended: a response whose first candidate has no content, whose   *)
(* content has no parts, or whose first part has neither text nor function *)
(* call ends the run as a text passthrough: the response's text field is   *)
(* printed, call_tool is not called and nothing is raised.  A function     *)
(* call without name or without arguments is not passed through: call_tool *)
(* is called once, with "" for a missing name and {} for missing arguments.*)
(***************************************************************************)
C7_MalformedAmended ==
    \A i \in Runs :
        EndedWithResponse(i)
        => /\ (LacksParts(response[i][1]) \/ BarePart(response[i][1]))
              => /\ pc[i] = "PassedThrough"
                 /\ ShowsResponseText(i)
                 /\ CallToolLog(i) = <<>>
                 /\ exc[i] = None
           /\ PartialCall(response[i][1])
              => LET fc == PartOne(response[i][1]).function_call[1]
                 IN  /\ CallToolLog(i) =
                            <<[op |-> "call_tool",
                               name |-> IF fc.name = None THEN "" ELSE fc.name[1],
                               args |-> IF fc.args = None THEN EmptyDict ELSE fc.args[1]]>>
                     /\ pc[i] \in {"Dispatched", "Failed"}
                     /\ shown[i] # None => shown[i][1].label = "tool_result"

\* A function call without a name was sent to the provider as "" and rejected.
C7_Witness ==
    /\ pc["first"] = "Failed"
    /\ response["first"] # None
    /\ PartialCall(response["first"][1])
    /\ PartOne(response["first"][1]).function_call[1].name = None
    /\ CallToolLog("first") = <<[op |-> "call_tool", name |-> "", args |-> AddArgs]>>
    /\ exc["first"] = Some([type |-> "ToolError", detail |-> "Unknown tool"])

(***************************************************************************)
(* C8: each of list_tools, generate_content and call_tool is attempted at  *)
(* most once in a run; a failure of list_tools or of generate_content ends *)
(* the run with that exception, and no later step runs: a failed           *)
(* list_tools is not followed by generate_content, a failed                *)
(* generate_content is not followed by call_tool.                          *)
(***************************************************************************)
Attempts(i, op) == Cardinality({k \in DOMAIN calls[i] : calls[i][k].op = op})

C8_NoRetryFailureStops ==
    \A i \in Runs :
        /\ \A op \in {"list_tools", "generate_content", "call_tool"} : Attempts(i, op) <= 1
        /\ exc[i] # None => pc[i] = "Failed" /\ ~ENABLED Step(i)
        /\ exc[i] = Some([type |-> "ProviderUnavailable", detail |-> "list_tools failed"])
           => CallOps(i) = <<"list_tools">> /\ response[i] = None
        /\ exc[i] = Some([type |-> "ServiceUnavailable", detail |-> "generate_content failed"])
           => CallOps(i) = <<"list_tools", "generate_content">> /\ func_name[i] = None
        /\ (pc[i] \in Final /\ CallOps(i) = <<"list_tools">>)
           => exc[i] = Some([type |-> "ProviderUnavailable", detail |-> "list_tools failed"])
        /\ (pc[i] \in Final /\ CallOps(i) = <<"list_tools", "generate_content">> /\ response[i] = None)
           => exc[i] = Some([type |-> "ServiceUnavailable", detail |-> "generate_content failed"])

\* generate_content failed and the run ended with its exception.
C8_Witness ==
    /\ pc["first"] = "Failed"
    /\ exc["first"] = Some([type |-> "ServiceUnavailable", detail |-> "generate_content failed"])
    /\ CallOps("first") = <<"list_tools", "generate_content">>

(***************************************************************************)
(* C9: the first part of the first candidate alone decides: two runs whose *)
(* responses agree on that part make the same call_tool call (same name,   *)
(* same arguments) or both make none; a response without a first part      *)
(* leads to no call; and the function call of a later part or a later      *)
(* candidate is never the one sent to the provider.                        *)
(***************************************************************************)
\* The call the later part and the later candidate of a response carry.
LaterCall == [op |-> "call_tool", name |-> "greet", args |-> GreetArgs]

C9_FirstPartDecides ==
    /\ \A i \in Runs :
          EndedWithResponse(i)
          => /\ ~HasFirstPart(response[i][1]) => CallToolLog(i) = <<>>
             /\ \A k \in DOMAIN CallToolLog(i) : CallToolLog(i)[k] # LaterCall
    /\ \A i, j \in Runs :
          (/\ EndedWithResponse(i) /\ EndedWithResponse(j)
           /\ HasFirstPart(response[i][1]) /\ HasFirstPart(response[j][1])
           /\ PartOne(response[i][1]) = PartOne(response[j][1]))
          => CallToolLog(i) = CallToolLog(j)

\* Two runs got different responses with the same first part, the second
\* with a later part and a later candidate, and both called add(5, 7).
C9_Witness ==
    /\ pc["first"] \in Final /\ pc["second"] \in Final
    /\ response["first"] # None /\ response["second"] # None
    /\ response["first"][1].candidates =
           Some(<<[content |-> Some([parts |-> Some(<<[text |-> None,
               function_call |-> Some([name |-> Some("add"), args |-> Some(AddArgs)])]>>)])]>>)
    /\ response["second"][1].candidates =
           Some(<<[content |-> Some([parts |-> Some(<<[text |-> None,
               function_call |-> Some([name |-> Some("add"), args |-> Some(AddArgs)])],
               LaterPart>>)])], LaterCandidate>>)
    /\ CallToolLog("first") = <<[op |-> "call_tool", name |-> "add", args |-> AddArgs]>>
    /\ CallToolLog("second") = CallToolLog("first")

(***************************************************************************)
(* C10: when the script is run twice and both runs get a response, with    *)
(* the same catalog returned by list_tools and a selection service that    *)
(* answers the same request with the same response, both runs have the     *)
(* same selection outcome: the same proposed call (name and arguments) or  *)
(* the same text.                                                          *)
(***************************************************************************)
\* The request a run sent to generate_content (its second remote call).
RequestOf(i) == calls[i][2].args

\* The outcome of the selection as the run acted on it.
SelectionOutcome(i) ==
    IF func_name[i] # None
    THEN [kind |-> "CallProposal", capabilityName |-> func_name[i][1],
          arguments |-> func_args[i][1]]
    ELSE [kind |-> "TextResponse", text |-> shown[i]]

C10_RepeatSameOutcome ==
    (/\ EndedWithResponse("first") /\ EndedWithResponse("second")
     /\ mcp_tools["first"] = mcp_tools["second"]
     /\ RequestOf("first") = RequestOf("second") => response["first"] = response["second"])
    => SelectionOutcome("first") = SelectionOutcome("second")

\* Both runs fetched the catalog <<add>>, got the same proposal and acted on it.
C10_Witness ==
    /\ EndedWithResponse("first") /\ EndedWithResponse("second")
    /\ mcp_tools["first"] = Some(<<AddTool>>)
    /\ mcp_tools["second"] = Some(<<AddTool>>)
    /\ response["first"] = response["second"]
    /\ SelectionOutcome("second") =
           [kind |-> "CallProposal", capabilityName |-> "add", arguments |-> AddArgs]
    /\ pc["second"] = "Dispatched"

(***************************************************************************)
(* C11: when two invocations run at once, in any interleaving of their     *)
(* steps, a step of one leaves every local of the other as it was, and     *)
(* what an invocation does follows from its own inputs alone: its          *)
(* declarations are built from its own catalog, its request carries its    *)
(* own declarations, it calls call_tool with the name and arguments of its *)
(* own response (or not at all), the result it binds is the provider's     *)
(* answer for its own catalog snapshot, and it prints its own result or    *)
(* its own response text, as it does when it runs alone.                   *)
(***************************************************************************)
\* Everything an invocation holds.
OwnState(j) ==
    <<pc[j], session[j], mcp_tools[j], gemini_functions[j], response[j], func_name[j],
      func_args[j], result[j], exc[j], shown[j], calls[j], visited[j]>>

\* The step is a step of one invocation and changes nothing of another.
StepOfOne == \E i \in Runs : \A j \in Runs \ {i} : OwnState(j)' = OwnState(j)

\* The call_tool calls the response r asks for.
ProposedCalls(r) ==
    IF HasFirstPart(r) /\ PartOne(r).function_call # None
    THEN LET fc == PartOne(r).function_call[1]
         IN  <<[op |-> "call_tool",
                name |-> IF fc.name = None THEN "" ELSE fc.name[1],
                args |-> IF fc.args = None THEN EmptyDict ELSE fc.args[1]]>>
    ELSE <<>>

FromOwnInputs(i) ==
    /\ gemini_functions[i] # None
       => /\ Len(gemini_functions[i][1]) = Len(mcp_tools[i][1])
          /\ \A k \in 1..Len(mcp_tools[i][1]) :
                /\ gemini_functions[i][1][k].name = mcp_tools[i][1][k].name
                /\ gemini_functions[i][1][k].parameters = mcp_tools[i][1][k].inputSchema
    /\ Len(calls[i]) >= 2 => calls[i][2].args.tools = gemini_functions[i][1]
    /\ EndedWithResponse(i)
       => /\ CallToolLog(i) = ProposedCalls(response[i][1])
          /\ CallToolLog(i) # <<>>
             => /\ func_name[i] = Some(CallToolLog(i)[1].name)
                /\ func_args[i] = Some(CallToolLog(i)[1].args)
          /\ pc[i] = "Dispatched"
             => /\ result[i] = Some(ProviderCall(mcp_tools[i][1], CallToolLog(i)[1].name,
                                                 CallToolLog(i)[1].args))
                /\ shown[i] = Some([label |-> "tool_result",
                                    body |-> "  " \o result[i][1].data])
          /\ pc[i] = "PassedThrough" => ShowsResponseText(i)

C11_Isolated ==
    /\ [](\A i \in Runs : FromOwnInputs(i))
    /\ [][StepOfOne]_vars

\* The second invocation has fetched <<add>>, called add(5, 7) and printed 12
\* while the first, holding the catalog <<greet>>, has not yet translated it.
C11_Witness ==
    /\ pc["first"] = "CatalogFetched"
    /\ mcp_tools["first"] = Some(<<GreetTool>>)
    /\ pc["second"] = "Dispatched"
    /\ mcp_tools["second"] = Some(<<AddTool>>)
    /\ CallToolLog("second") = <<[op |-> "call_tool", name |-> "add", args |-> AddArgs]>>
    /\ shown["second"] = Some([label |-> "tool_result", body |-> "  12"])

(***************************************************************************)
(* C12: search_users(d) returns exactly the users of the three-user sample *)
(* whose department is d: every user returned is a sample user of          *)
(* department d, every sample user of department d is returned once, and   *)
(* they come in sample order; for "kaihatsu" these are u001 and u003, and  *)
(* for a department no user has the list is empty.                         *)
(***************************************************************************)
\* The place of user u in the sample.
SamplePlace(u) == CHOOSE k \in DOMAIN get_users_data : get_users_data[k] = u

ExactlyTheDepartment(d, us) ==
    /\ \A m \in DOMAIN us :
          /\ \E k \in DOMAIN get_users_data : get_users_data[k] = us[m]
          /\ us[m].department = d
    /\ \A k \in DOMAIN get_users_data :
          get_users_data[k].department = d
          => Cardinality({m \in DOMAIN us : us[m] = get_users_data[k]}) = 1
    /\ \A m, n \in DOMAIN us : m < n => SamplePlace(us[m]) < SamplePlace(us[n])

C12_SearchUsersExact ==
    /\ Len(get_users_data) = 3
    /\ \A k \in DOMAIN search_log :
          LET d == search_log[k].department
              us == search_log[k].users
          IN  /\ ExactlyTheDepartment(d, us)
              /\ d = "kaihatsu" => [m \in DOMAIN us |-> us[m].id] = <<"u001", "u003">>
              /\ (\A j \in DOMAIN get_users_data : get_users_data[j].department # d)
                 => us = <<>>

\* One search for "kaihatsu" has returned two users and one for "jinji" none.
C12_Witness ==
    \E k, l \in DOMAIN search_log :
        /\ search_log[k].department = "kaihatsu" /\ Len(search_log[k].users) = 2
        /\ search_log[l].department = "jinji" /\ search_log[l].users = <<>>

(***************************************************************************)
(* C13: list_tools and call_tool are called only while the session is      *)
(* open, the session is open from the catalog fetch to the end of the      *)
(* branch, and it is closed whenever a run has ended: after a dispatch,    *)
(* after the early return for an empty response, after a text passthrough, *)
(* and after list_tools, generate_content or call_tool has raised.         *)
(***************************************************************************)
\* The step makes a provider call for run i.
CallsProvider(i) ==
    /\ Len(calls'[i]) = Len(calls[i]) + 1
    /\ calls'[i][Len(calls'[i])].op \in {"list_tools", "call_tool"}

InsideTheBlock == {"CatalogFetched", "DeclarationsTranslated", "OutcomeReceived"}

C13_SessionScoped ==
    /\ [](\A i \in Runs :
            /\ pc[i] \in Final => session[i] = "closed"
            /\ pc[i] \in InsideTheBlock => session[i] = "open")
    /\ [][\A i \in Runs : CallsProvider(i) => session[i] = "open"]_vars

\* The early return was taken for a response without candidates, after
\* list_tools was called, and the session is closed.
C13_Witness ==
    /\ pc["first"] = "PassedThrough"
    /\ response["first"][1].candidates = None
    /\ CallOps("first") = <<"list_tools", "generate_content">>
    /\ session["first"] = "closed"

=============================================================================
